---- MODULE Spec2Model ----
(***************************************************************************)
(* The workflow execution engine of ui/workflows.py: the Run tab of        *)
(* WorkflowsInterface.render, WorkflowsInterface._execute_workflow, the    *)
(* tool invocation of ToolWorkshopInterface.execute_tool, the two history   *)
(* recorders, and the workflow store (_save_workflow, _load_workflow) over *)
(* utils/storage.py.                                                       *)
(*                                                                         *)
(* Spec is a run started from the Run tab; EngineSpec is _execute_workflow *)
(* on definitions written by hand; HistorySpec is the recorders on a       *)
(* loaded session; StoreSpec is the Build tab saving and the Run tab       *)
(* loading.                                                                *)
(*                                                                         *)
(* Python values are tagged records (None, numbers, strings, objects); a   *)
(* dict is a function from its keys; a dict whose iteration order the code *)
(* depends on (a step's "inputs") is a sequence of key/mapping pairs.  An  *)
(* f-string is its template together with the values substituted in it.    *)
(* Wall-clock fields of the history entries (timestamp, execution_time)    *)
(* are left out: no modelled decision reads them.                          *)
(***************************************************************************)
EXTENDS Integers, Sequences, FiniteSets, TLC

\* Longest step list of a workflow definition.
MaxSteps == 3

\* The on-disk history lists keep the last 500 entries.
HistoryCap == 500

\* Most calls of the history recorders followed after a session is loaded.
MaxRecords == 2

(***************************************************************************)
(* Values                                                                  *)
(***************************************************************************)
None == [t |-> "null"]
JNum(n) == [t |-> "num", n |-> n]
JStr(s) == [t |-> "str", s |-> s]
JObj(d) == [t |-> "obj", d |-> d]

\* bytes, the content of an uploaded file: a value json.dump cannot write
JBytes == [t |-> "bytes"]

EmptyDict == [k \in {} |-> None]

\* json.dump writes None, numbers, strings and the dicts made of them; it raises
\* TypeError on bytes, also inside a dict.
RECURSIVE JsonSerialisable(_)
JsonSerialisable(v) ==
    CASE v.t = "bytes" -> FALSE
      [] v.t = "obj"   -> \A k \in DOMAIN v.d : JsonSerialisable(v.d[k])
      [] OTHER         -> TRUE

\* d.get(k)
DictGet(d, k) == IF k \in DOMAIN d THEN d[k] ELSE None

\* d.get(k, default)
DictGetDefault(d, k, default) == IF k \in DOMAIN d THEN d[k] ELSE default

\* d[k] = v
DictSet(d, k, v) == [x \in (DOMAIN d) \cup {k} |-> IF x = k THEN v ELSE d[x]]

\* json.dumps({"error": f"<template>"}) with the values substituted in the template
JsonDumpsError(template, subst) == [json_error |-> template, subst |-> subst]

\* a plain string held where an error payload may also be held
Raw(s) == [raw |-> s]

\* The strings a tool function of the model returns.
ToolResults == {"{\"sum\": 5}", "42", "hello"}

\* json.loads on the strings of the model: the object, the number, and every
\* other string (plain words, the "Error..." messages) is not JSON.
JsonLoads(s) ==
    CASE s = "{\"sum\": 5}" -> [ok |-> TRUE, value |-> JObj([sum |-> JNum(5)])]
      [] s = "{}"           -> [ok |-> TRUE, value |-> JObj(EmptyDict)]
      [] s = "42"           -> [ok |-> TRUE, value |-> JNum(42)]
      [] OTHER              -> [ok |-> FALSE, value |-> None]

\* int(v): a number converts, None and a non-numeric string raise
PyInt(v) ==
    CASE v.t = "num" -> [ok |-> TRUE, n |-> v.n, e |-> ""]
      [] v.t = "str" -> [ok |-> FALSE, n |-> 0, e |-> "invalid literal for int()"]
      [] OTHER       -> [ok |-> FALSE, n |-> 0, e |-> "int() argument must be a string or a number"]

(***************************************************************************)
(* utils/storage.py: paths are sequences of segments                       *)
(***************************************************************************)
\* name.split("/") on the names of the model: a name without a separator is
\* one segment.
Split(name) ==
    CASE name = "./a"                   -> << ".", "a" >>
      [] name = "../x"                  -> << "..", "x" >>
      [] name = "../workflows_backup/a" -> << "..", "workflows_backup", "a" >>
      [] OTHER                          -> << name >>

\* The segments of f"{name}{ext}"
RelativeParts(name, ext) ==
    LET parts == Split(name) IN
    [i \in 1 .. Len(parts) |-> IF i = Len(parts) THEN parts[i] \o ext ELSE parts[i]]

\* The directory the app runs in.
Cwd == << "app" >>

ROOT_MAP ==
    [root \in {"@workflows", "@tools"} |->
        IF root = "@workflows" THEN << "output", "workflows" >>
        ELSE << "output", "tools" >>]

\* Path.resolve(strict=False) of a relative path: made absolute, "." dropped,
\* ".." dropping the segment before it.
RECURSIVE Normalise(_, _)
Normalise(done, parts) ==
    IF parts = << >> THEN done
    ELSE LET h == Head(parts) IN
         Normalise(CASE h = "."  -> done
                     [] h = ".." -> (IF done = << >> THEN done
                                     ELSE SubSeq(done, 1, Len(done) - 1))
                     [] OTHER    -> Append(done, h),
                   Tail(parts))

PathResolve(parts) == Normalise(<< >>, Cwd \o parts)

\* What can follow the text of one segment of the model inside another.
SegmentTails == {"", "_backup"}

\* The candidate is the base or lies below it, segment by segment.
IsRelativeTo(candidate, base) ==
    /\ Len(candidate) >= Len(base)
    /\ \A i \in 1 .. Len(base) : candidate[i] = base[i]

\* str(candidate).startswith(str(base)) on "/"-joined paths: the segments
\* before the last one of base are equal and the last one of base is the
\* beginning of the candidate's segment at that place.
StartsWith(candidate, base) ==
    /\ Len(candidate) >= Len(base)
    /\ \A i \in 1 .. Len(base) - 1 : candidate[i] = base[i]
    /\ \E t \in SegmentTails : base[Len(base)] \o t = candidate[Len(base)]

\* StoragePaths.resolve: raises ValueError (ok = FALSE) on a path that does
\* not pass the check, else gives the path, here as the file it designates.
StoragePathsResolve(logical_root, relative_parts) ==
    LET base_abs == PathResolve(ROOT_MAP[logical_root])
        candidate_abs == PathResolve(ROOT_MAP[logical_root] \o relative_parts)
    IN  [ok |-> StartsWith(candidate_abs, base_abs), path |-> candidate_abs]

\* json.dumps of a dict of JSON values, and json.loads of a file's text
JsonText(data) == [json |-> data]

\* read_json: None when the path is no file or the text is not JSON; raises
\* what resolve raises.
read_json(files, logical_root, relative_parts) ==
    LET r == StoragePathsResolve(logical_root, relative_parts) IN
    IF ~r.ok THEN [raised |-> TRUE, value |-> None, touched |-> {}]
    ELSE IF r.path \notin DOMAIN files
    THEN [raised |-> FALSE, value |-> None, touched |-> {r.path}]
    ELSE [raised |-> FALSE,
          value |-> IF "json" \in DOMAIN files[r.path] THEN files[r.path].json ELSE None,
          touched |-> {r.path}]

\* write_json: True, or raises what resolve raises
write_json(files, logical_root, relative_parts, data) ==
    LET r == StoragePathsResolve(logical_root, relative_parts) IN
    IF ~r.ok THEN [raised |-> TRUE, files |-> files, touched |-> {}]
    ELSE [raised |-> FALSE, files |-> DictSet(files, r.path, JsonText(data)),
          touched |-> {r.path}]

(***************************************************************************)
(* The tool registry: output/tools/<name>.json and output/tools/code/<name>.py *)
(***************************************************************************)
\* "add" declares x required and y optional; "echo" is a config in the older
\* layout ("parameters", no "required"); "ghost" has neither config nor code.
ToolConfigs ==
    [add  |-> [input_parameters |-> << [name |-> "x", required |-> TRUE],
                                       [name |-> "y", required |-> FALSE] >>,
               output_parameters |-> << [name |-> "sum"] >>],
     echo |-> [parameters |-> << [name |-> "x"] >>]]

ToolCode == {"add", "echo"}

\* What a tool function raises when it raises.
ToolExceptions == {"boom"}

load_tool_config(tool_name) ==
    IF tool_name \in DOMAIN ToolConfigs THEN ToolConfigs[tool_name] ELSE None

\* read_json("@tools", f"{tool_name}.json") raises: StoragePaths.resolve does
\* not accept the path.
load_tool_config_raises(tool_name) ==
    ~StoragePathsResolve("@tools", RelativeParts(tool_name, ".json")).ok

import_tool_function(tool_name) == tool_name \in ToolCode

\* The result strings execute_tool can return for a tool, each with the success
\* flag it records in the tool history.
ExecuteToolOutcomes(tool_name) ==
    IF ~import_tool_function(tool_name)
    THEN {[result |-> "Error: Could not load function for " \o tool_name, success |-> FALSE]}
    ELSE {[result |-> r, success |-> TRUE] : r \in ToolResults}
         \cup {[result |-> "Error executing " \o tool_name \o ": " \o e, success |-> FALSE] :
                 e \in ToolExceptions}

(***************************************************************************)
(* Workflow definitions                                                    *)
(***************************************************************************)
Const(v) == [type |-> "const", value |-> v]
Ref(i, o) == [type |-> "ref", step |-> i, output |-> o]
Param(n) == [type |-> "param", name |-> n]
\* a mapping that is not a dict: the bare value
Literal(v) == [literal |-> v]

Bind(k, m) == [key |-> k, mapping |-> m]
Step(t, im) == [tool |-> t, inputs |-> im]

Mappings ==
    {Const(JNum(2)), Param("q")} \cup {Ref(JNum(s), "sum") : s \in -1 .. MaxSteps - 1}

\* A step's input map: empty, one binding of the required input x, or a
\* reference bound to y followed by a top-level parameter bound to x.
InputMaps ==
    {<< >>}
    \cup {<< Bind("x", m) >> : m \in Mappings}
    \cup {<< Bind("y", Ref(JNum(0), "sum")), Bind("x", Param("q")) >>}

Steps ==
    {Step("add", im) : im \in InputMaps} \cup {Step("", << >>), Step("ghost", << >>)}

StepLists == UNION {[1 .. n -> Steps] : n \in 0 .. MaxSteps}

\* Top-level declarations of a stored definition: which inputs the Run form
\* asks for and which outputs it shows.
Declarations ==
    {[input_parameters |-> ins, output_parameters |-> << >>] :
        ins \in {<< >>, << [name |-> "q"] >>, << [name |-> "r"] >>}}
    \cup {[input_parameters |-> << >>, output_parameters |-> << [name |-> "sum"] >>]}

Workflows ==
    {[name |-> "wf", steps |-> s,
      input_parameters |-> d.input_parameters,
      output_parameters |-> d.output_parameters] : s \in StepLists, d \in Declarations}

(***************************************************************************)
(* _execute_workflow: the resolution of one step's inputs (lines 76-114)   *)
(***************************************************************************)
Resolved(params) == [ok |-> TRUE, params |-> params, payload |-> None]
Halt(params, payload) == [ok |-> FALSE, params |-> params, payload |-> payload]

\* An exception that no handler of _execute_workflow catches.
Raise(e) == [ok |-> FALSE, params |-> EmptyDict, payload |-> [exception |-> e]]
Raises(r) == "exception" \in DOMAIN r.payload

IsDict(mapping) == "literal" \notin DOMAIN mapping

\* mapping.get("type") if isinstance(mapping, dict) else "const"
MappingType(mapping) == IF IsDict(mapping) THEN mapping.type ELSE "const"

\* The index check off by one: the step just before is not accepted.
InvalidRefButLast(ref_step, step_outputs) ==
    ref_step < 0 \/ ref_step >= Len(step_outputs) - 1

\* The accepted range of a reference: an index into the outputs held so far.
InvalidRef(ref_step, step_outputs) == ref_step < 0 \/ ref_step >= Len(step_outputs)

\* A reference outside the outputs held so far reads nothing instead of halting.
ResolveRefLenient(key, mapping, step_outputs, params) ==
    LET conv == PyInt(DictGetDefault(mapping, "step", JNum(-1))) IN
    IF ~conv.ok
    THEN Halt(params, JsonDumpsError("Input mapping error for '{key}': {e}",
                                     [key |-> key, e |-> conv.e]))
    ELSE IF InvalidRef(conv.n, step_outputs)
    THEN Resolved(DictSet(params, key, None))
    ELSE Resolved(DictSet(params, key, DictGet(step_outputs[conv.n + 1], mapping.output)))

\* A reference to an output name the step output does not hold is an error.
ResolveRefStrict(key, mapping, step_outputs, params) ==
    LET conv == PyInt(DictGetDefault(mapping, "step", JNum(-1))) IN
    IF ~conv.ok
    THEN Halt(params, JsonDumpsError("Input mapping error for '{key}': {e}",
                                     [key |-> key, e |-> conv.e]))
    ELSE IF InvalidRef(conv.n, step_outputs)
            \/ mapping.output \notin DOMAIN step_outputs[conv.n + 1]
    THEN Halt(params, JsonDumpsError("Invalid ref for '{key}'", [key |-> key]))
    ELSE Resolved(DictSet(params, key, step_outputs[conv.n + 1][mapping.output]))

\* lines 88-94
ResolveRef(key, mapping, step_outputs, params) ==
    LET conv == PyInt(DictGetDefault(mapping, "step", JNum(-1))) IN
    IF ~conv.ok
    THEN Halt(params, JsonDumpsError("Input mapping error for '{key}': {e}",
                                     [key |-> key, e |-> conv.e]))
    ELSE IF InvalidRef(conv.n, step_outputs)
    THEN Halt(params, JsonDumpsError("Invalid ref for '{key}'", [key |-> key]))
    ELSE Resolved(DictSet(params, key, DictGet(step_outputs[conv.n + 1], mapping.output)))

\* (top_params or {}).get(p_name): an unsupplied parameter reads as None.
ResolveParamLenient(key, mapping, top_params, params) ==
    Resolved(DictSet(params, key,
                     IF top_params = None THEN None
                     ELSE DictGet(top_params.d, mapping.name)))

\* lines 95-102
ResolveParam(key, mapping, top_params, params) ==
    IF top_params = None
    THEN Halt(params, JsonDumpsError("No top-level params provided for '{key}'",
                                     [key |-> key]))
    ELSE IF mapping.name \notin DOMAIN top_params.d
    THEN Halt(params, JsonDumpsError("Top-level param '{p_name}' not provided for '{key}'",
                                     [p_name |-> mapping.name, key |-> key]))
    ELSE Resolved(DictSet(params, key, top_params.d[mapping.name]))

\* lines 103-105
ResolveConst(key, mapping, params) ==
    Resolved(DictSet(params, key,
                     IF IsDict(mapping) THEN DictGet(mapping, "value") ELSE mapping.literal))

\* A value of the top-level map under the name of the step input takes the
\* place of the binding.
ResolveMappingTopOverrides(key, mapping, step_outputs, top_params, params) ==
    IF top_params # None /\ key \in DOMAIN top_params.d
    THEN Resolved(DictSet(params, key, top_params.d[key]))
    ELSE CASE MappingType(mapping) = "ref"   -> ResolveRef(key, mapping, step_outputs, params)
           [] MappingType(mapping) = "param" -> ResolveParam(key, mapping, top_params, params)
           [] OTHER                          -> ResolveConst(key, mapping, params)

\* lines 86-107: one binding of the input map
ResolveMapping(key, mapping, step_outputs, top_params, params) ==
    CASE MappingType(mapping) = "ref"   -> ResolveRef(key, mapping, step_outputs, params)
      [] MappingType(mapping) = "param" -> ResolveParam(key, mapping, top_params, params)
      [] OTHER                          -> ResolveConst(key, mapping, params)

\* lines 84-107: the bindings in the order of the input map; the first one that
\* cannot be resolved ends the run
RECURSIVE ResolveInputs(_, _, _, _)
ResolveInputs(input_map, step_outputs, top_params, params) ==
    IF input_map = << >> THEN Resolved(params)
    ELSE LET r == ResolveMapping(Head(input_map).key, Head(input_map).mapping,
                                 step_outputs, top_params, params) IN
         IF ~r.ok THEN r
         ELSE ResolveInputs(Tail(input_map), step_outputs, top_params, r.params)

\* tool_cfg.get("input_parameters", tool_cfg.get("parameters", [])), with
\* tool_cfg = load_tool_config(tool_name) or {}
ToolInputs(tool_name) ==
    LET cfg == load_tool_config(tool_name) IN
    IF cfg = None THEN << >>
    ELSE IF "input_parameters" \in DOMAIN cfg THEN cfg.input_parameters
    ELSE IF "parameters" \in DOMAIN cfg THEN cfg.parameters
    ELSE << >>

\* p.get("required", False) and pname and pname not in params
MissingRequired(p, params) ==
    /\ DictGetDefault(p, "required", FALSE)
    /\ DictGetDefault(p, "name", "") # ""
    /\ p.name \notin DOMAIN params

\* The check of the required inputs left out.
RequiredInputsUnchecked(tool_inputs, params, tool_name, idx) == Resolved(params)

\* lines 110-114: the first declared input that is required and not bound
RequiredInputs(tool_inputs, params, tool_name, idx) ==
    LET missing == {i \in DOMAIN tool_inputs : MissingRequired(tool_inputs[i], params)} IN
    IF missing = {} THEN Resolved(params)
    ELSE LET i == CHOOSE m \in missing : \A o \in missing : m <= o IN
         Halt(params,
              JsonDumpsError("Missing required input '{pname}' for tool '{tool_name}' at step {idx+1}",
                             [pname |-> tool_inputs[i].name, tool_name |-> tool_name,
                              step |-> idx + 1]))

\* lines 71-114 for the step at 0-based position idx
PrepareStep(step, idx, step_outputs, top_params) ==
    IF step.tool = ""
    THEN Halt(EmptyDict, JsonDumpsError("Step {idx+1} missing tool", [step |-> idx + 1]))
    ELSE IF load_tool_config_raises(step.tool)
    THEN Raise("ValueError: Path traversal attempt detected")
    ELSE LET r == ResolveInputs(step.inputs, step_outputs, top_params, EmptyDict) IN
         IF ~r.ok THEN r
         ELSE RequiredInputs(ToolInputs(step.tool), r.params, step.tool, idx)

\* Every parsed value wrapped, the objects too.
ParseStepOutputAlwaysWrapped(output_str) ==
    LET parsed == JsonLoads(output_str) IN
    [result |-> IF parsed.ok THEN parsed.value ELSE JStr(output_str)]

\* lines 120-125: the step output made of a tool's result string
ParseStepOutput(output_str) ==
    LET parsed == JsonLoads(output_str) IN
    IF parsed.ok
    THEN (IF parsed.value.t = "obj" THEN parsed.value.d ELSE [result |-> parsed.value])
    ELSE [result |-> JStr(output_str)]

(***************************************************************************)
(* State                                                                   *)
(***************************************************************************)
VARIABLES
    current_session_id, \* st.session_state["current_session_id"]; "" when unset
    session_file,       \* output/sessions/<id>.json: None (no file) or its dict
    tool_history,       \* st.session_state.tool_history
    workflow_history,   \* st.session_state.workflow_history
    pc,                 \* where the Run tab is: "idle", "for", "execute_tool",
                        \* "returned", "recorded", "raised"
    wf_data,            \* the definition the Run tab loaded
    top_params,         \* the second argument of _execute_workflow
    idx,                \* the loop index of _execute_workflow
    params,             \* the argument map built for the current step
    step_outputs,
    final_json_str,
    result,             \* what _execute_workflow returned: ok, step_results, payload
    calls,              \* the calls of execute_tool made by the run, in order
    fs,                 \* the files under output/: text by absolute path
    op,                 \* the last call of the workflow store and what it returned
    recorded,           \* every entry handed to a recorder for the session, in
                        \* order, and whether the disk refused a write
    runs,               \* the locals of _execute_workflow in each script thread
    recorders,          \* the locals of the history recorder in each script thread
    wf_steps,           \* st.session_state.wf_steps: the steps being built
    widgets             \* the values of the Build tab's keyed widgets, by position

vars == << current_session_id, session_file, tool_history, workflow_history, pc,
           wf_data, top_params, idx, params, step_outputs, final_json_str, result,
           calls, fs, op, recorded, runs, recorders, wf_steps, widgets >>

\* What a run of a workflow reads and writes.
runVars == << pc, wf_data, top_params, idx, params, step_outputs, final_json_str,
             result, calls >>

\* What the recorders write.
historyVars == << current_session_id, session_file, tool_history, workflow_history >>

\* What the workflow store writes.
storeVars == << fs, op >>

\* The script threads: Streamlit runs the script of each browser session in a
\* thread of its own.
RunIds == {"r1", "r2"}

\* A thread that has not entered _execute_workflow.
RunIdle ==
    [pc |-> "idle", wf_data |-> None, top_params |-> None, idx |-> 0,
     params |-> EmptyDict, step_outputs |-> << >>, final_json_str |-> None,
     result |-> None, calls |-> << >>, tool_history |-> << >>, session_file |-> None]

\* The lists of a session that the recorders append to.
HandedFields == {"tool_history", "workflow_history"}

\* A thread that has not entered a history recorder.  outcome is how the
\* call ended: "none" (not ended), "written", "open_failed" or "raised".
RecorderIdle ==
    [pc |-> "idle", field |-> "", entry |-> None, session_data |-> EmptyDict,
     raced |-> FALSE, outcome |-> "none",
     memory |-> [tool_history |-> << >>, workflow_history |-> << >>]]

\* What the Build tab reads and writes.
buildVars == << wf_steps, widgets >>

\* What the specifications of several threads and of the Build tab read and
\* write.
auxVars == << runs, recorders, buildVars >>

AuxInit ==
    /\ runs = [r \in RunIds |-> RunIdle]
    /\ recorders = [r \in RunIds |-> RecorderIdle]
    /\ wf_steps = << >>
    /\ widgets = << >>

Init ==
    /\ current_session_id = "s1"
    /\ session_file = None
    /\ tool_history = << >>
    /\ workflow_history = << >>
    /\ pc = "idle"
    /\ wf_data = None
    /\ top_params = None
    /\ idx = 0
    /\ params = EmptyDict
    /\ step_outputs = << >>
    /\ final_json_str = None
    /\ result = None
    /\ calls = << >>
    /\ fs = EmptyDict
    /\ op = None
    /\ recorded = [tool_history |-> << >>, workflow_history |-> << >>,
                   disk_failed |-> FALSE]
    /\ AuxInit

(***************************************************************************)
(* The history recorders                                                   *)
(***************************************************************************)
\* history_list[-500:] when it is longer than 500
LastEntries(history_list) ==
    IF Len(history_list) > HistoryCap
    THEN SubSeq(history_list, Len(history_list) - HistoryCap + 1, Len(history_list))
    ELSE history_list

\* A file whose text is not JSON: cut short by a write that raised.
Corrupt == [corrupt |-> TRUE]

\* What the disk does when the session file is opened for writing.
DiskOutcomes == {"ok", "open_fails"}

\* The arguments an entry holds: "inputs" of a workflow entry, "parameters" of
\* a tool entry.  The other fields of an entry are strings, numbers, booleans
\* and parsed JSON.
EntryArguments(entry) ==
    IF "inputs" \in DOMAIN entry THEN entry.inputs ELSE entry.parameters

\* json.dump(session_data, f) raises: the lists read from the file were JSON,
\* so only the appended entry can hold a value that is not.
DumpRaises(entry) ==
    \E k \in DOMAIN EntryArguments(entry) : ~JsonSerialisable(EntryArguments(entry)[k])

\* The read-modify-write of the session file by a recorder: the file's dict (an
\* empty one when there is no file or json.load raises) with entry appended to
\* the list under field.  open(path, "w") empties the file before json.dump
\* writes to it, so a dump that raises leaves text that is not JSON.
PersistEntry(file, field, entry, disk) ==
    LET session_data == IF file = None \/ file = Corrupt THEN EmptyDict ELSE file
        history_list == Append(DictGetDefault(session_data, field, << >>), entry)
    IN  IF disk = "open_fails" THEN file
        ELSE IF DumpRaises(entry) THEN Corrupt
        ELSE DictSet(session_data, field, LastEntries(history_list))

SessionFileAfter(field, entry, disk) ==
    IF current_session_id # "" THEN PersistEntry(session_file, field, entry, disk)
    ELSE session_file

\* The entries handed to the recorders so far, with this one.
RecordedAfter(field, entry, disk) ==
    [recorded EXCEPT ![field] = Append(@, entry),
                     !.disk_failed = @ \/ (current_session_id # "" /\ disk # "ok")]

\* The exception raised inside the recorder's body, "none" when there is none.
RecorderException(entry, disk) ==
    CASE current_session_id = "" -> "none"
      [] disk = "open_fails"     -> "OSError"
      [] DumpRaises(entry)       -> "TypeError"
      [] OTHER                   -> "none"

\* An exception of the body leaves the recorder.
RecorderExitUnguarded(exception) ==
    IF exception = "none" THEN "recorded" ELSE "raised"

\* except Exception: pass, around the write and around the whole body: the
\* recorder returns whatever was raised inside it.
RecorderExit(exception) == "recorded"

\* The entries hold result[:2000] and final_output[:2000]; every string of the
\* model is shorter, so the slice is the string.
ToolEntry(tool_name, parameters, outcome) ==
    [tool_name |-> tool_name, parameters |-> parameters,
     result |-> outcome.result, success |-> outcome.success]

WorkflowEntry(workflow_def, inputs, res) ==
    [workflow_name |-> workflow_def.name,
     inputs |-> inputs,
     step_count |-> Len(workflow_def.steps),
     success |-> res.ok,
     final_output |-> res.payload,
     step_results |-> res.step_results]

(***************************************************************************)
(* The Run tab                                                             *)
(***************************************************************************)
\* What the Run form collects: a value under every declared input name.
UserParams(top_inputs) ==
    [n \in {top_inputs[i].name : i \in DOMAIN top_inputs} |-> JStr("paris")]

\* user_params if top_inputs else None
TopParams(wf) ==
    IF wf.input_parameters # << >> THEN JObj(UserParams(wf.input_parameters)) ELSE None

\* A failure returned with an empty list in place of the outputs held.
ReturnedWithoutPartial(ok, step_results, payload) ==
    [ok |-> ok, step_results |-> IF ok THEN step_results ELSE << >>, payload |-> payload]

\* The tuple a return statement of _execute_workflow builds.
Returned(ok, step_results, payload) ==
    [ok |-> ok, step_results |-> step_results, payload |-> payload]

\* _execute_workflow is entered with one of the given definitions and either
\* returns at once (no steps) or reaches its loop.
Execute(workflows) ==
    /\ pc = "idle"
    /\ \E wf \in workflows :
        /\ wf_data' = wf
        /\ top_params' = TopParams(wf)
        /\ IF wf.steps = << >>
           THEN /\ result' = Returned(FALSE, << >>, Raw("{}"))
                /\ pc' = "returned"
           ELSE /\ result' = result
                /\ pc' = "for"
    /\ idx' = 0
    /\ step_outputs' = << >>
    /\ final_json_str' = None
    /\ UNCHANGED << current_session_id, session_file, tool_history, workflow_history,
                    params, calls >>
    /\ UNCHANGED << storeVars, recorded, auxVars >>

\* Execute is clicked on a stored workflow.
ExecuteClicked == Execute(Workflows)

\* A step that cannot be prepared is passed over (continue for return).
ResolveStepSkipsFailed ==
    /\ pc = "for"
    /\ idx < Len(wf_data.steps)
    /\ LET r == PrepareStep(wf_data.steps[idx + 1], idx, step_outputs, top_params) IN
       IF r.ok
       THEN /\ params' = r.params
            /\ pc' = "execute_tool"
            /\ idx' = idx
       ELSE /\ params' = r.params
            /\ pc' = "for"
            /\ idx' = idx + 1
    /\ UNCHANGED << current_session_id, session_file, tool_history, workflow_history,
                    wf_data, top_params, step_outputs, final_json_str, result, calls >>
    /\ UNCHANGED << storeVars, recorded, auxVars >>

\* The checks of a step made after its tool is called: a step that cannot be
\* prepared has been invoked when the run returns.
ResolveStepInvokesFailed ==
    /\ pc = "for"
    /\ idx < Len(wf_data.steps)
    /\ LET r == PrepareStep(wf_data.steps[idx + 1], idx, step_outputs, top_params) IN
       IF r.ok
       THEN /\ params' = r.params
            /\ pc' = "execute_tool"
            /\ result' = result
            /\ calls' = calls
       ELSE /\ params' = r.params
            /\ pc' = "returned"
            /\ result' = Returned(FALSE, step_outputs, r.payload)
            /\ calls' = Append(calls, [step |-> idx, tool_name |-> wf_data.steps[idx + 1].tool,
                                       parameters |-> r.params, output_str |-> "",
                                       success |-> FALSE])
    /\ UNCHANGED << current_session_id, session_file, tool_history, workflow_history,
                    wf_data, top_params, idx, step_outputs, final_json_str >>
    /\ UNCHANGED << storeVars, recorded, auxVars >>

\* One pass of the loop up to the call of execute_tool: the step either halts
\* the run or has its argument map ready.
ResolveStep ==
    /\ pc = "for"
    /\ idx < Len(wf_data.steps)
    /\ LET r == PrepareStep(wf_data.steps[idx + 1], idx, step_outputs, top_params) IN
       IF r.ok
       THEN /\ params' = r.params
            /\ pc' = "execute_tool"
            /\ result' = result
       ELSE IF Raises(r)
       THEN /\ params' = r.params
            /\ pc' = "raised"
            /\ result' = result
       ELSE /\ params' = r.params
            /\ pc' = "returned"
            /\ result' = Returned(FALSE, step_outputs, r.payload)
    /\ UNCHANGED << current_session_id, session_file, tool_history, workflow_history,
                    wf_data, top_params, idx, step_outputs, final_json_str, calls >>
    /\ UNCHANGED << storeVars, recorded, auxVars >>

\* execute_tool for the current step (which records the call in the tool
\* history), then the append of the parsed output.
ExecuteTool ==
    /\ pc = "execute_tool"
    /\ LET tool_name == wf_data.steps[idx + 1].tool IN
       \E outcome \in ExecuteToolOutcomes(tool_name) :
        /\ calls' = Append(calls, [step |-> idx, tool_name |-> tool_name,
                                   parameters |-> params, output_str |-> outcome.result,
                                   success |-> outcome.success])
        /\ tool_history' = Append(tool_history, ToolEntry(tool_name, params, outcome))
        /\ session_file' = SessionFileAfter("tool_history",
                                            ToolEntry(tool_name, params, outcome), "ok")
        /\ recorded' = RecordedAfter("tool_history",
                                     ToolEntry(tool_name, params, outcome), "ok")
        /\ final_json_str' = Raw(outcome.result)
        /\ step_outputs' = Append(step_outputs, ParseStepOutput(outcome.result))
    /\ idx' = idx + 1
    /\ pc' = "for"
    /\ UNCHANGED << current_session_id, workflow_history, wf_data, top_params, params,
                    result >>
    /\ UNCHANGED << storeVars, auxVars >>

\* The return statement indented into the loop body: it runs after one step.
ReturnTrueInsideLoop ==
    /\ pc = "for"
    /\ idx >= 1
    /\ result' = Returned(TRUE, step_outputs, final_json_str)
    /\ pc' = "returned"
    /\ UNCHANGED << current_session_id, session_file, tool_history, workflow_history,
                    wf_data, top_params, idx, params, step_outputs, final_json_str,
                    calls >>
    /\ UNCHANGED << storeVars, recorded, auxVars >>

\* The loop is exhausted: return True, step_outputs, final_json_str
ReturnTrue ==
    /\ pc = "for"
    /\ idx = Len(wf_data.steps)
    /\ result' = Returned(TRUE, step_outputs, final_json_str)
    /\ pc' = "returned"
    /\ UNCHANGED << current_session_id, session_file, tool_history, workflow_history,
                    wf_data, top_params, idx, params, step_outputs, final_json_str,
                    calls >>
    /\ UNCHANGED << storeVars, recorded, auxVars >>

\* json.loads(final_str or "{}"), and {"result": final_str} when that raises
ParsedFinal(final_str) ==
    LET parsed == JsonLoads(final_str.raw) IN
    IF parsed.ok THEN parsed.value ELSE JObj([result |-> JStr(final_str.raw)])

\* Lines 349-366 raise before the success is recorded: parsed_final is bound
\* only when outputs are declared, and .get needs it to be a dict.
ShowOutputsRaises(wf, final_str) ==
    IF wf.output_parameters = << >> THEN TRUE
    ELSE /\ \E i \in DOMAIN wf.output_parameters :
              DictGetDefault(wf.output_parameters[i], "name", "") # ""
         /\ ParsedFinal(final_str).t # "obj"

\* The Run tab shows the returned result and records the run.
ShowResult ==
    /\ pc = "returned"
    /\ IF result.ok /\ ShowOutputsRaises(wf_data, result.payload)
       THEN /\ pc' = "raised"
            /\ UNCHANGED << workflow_history, session_file, recorded >>
       ELSE LET entry == WorkflowEntry(wf_data,
                                       IF top_params = None THEN EmptyDict ELSE top_params.d,
                                       result) IN
            /\ pc' = RecorderExit(RecorderException(entry, "ok"))
            /\ workflow_history' = Append(workflow_history, entry)
            /\ session_file' = SessionFileAfter("workflow_history", entry, "ok")
            /\ recorded' = RecordedAfter("workflow_history", entry, "ok")
    /\ UNCHANGED << current_session_id, tool_history, wf_data, top_params, idx, params,
                    step_outputs, final_json_str, result, calls >>
    /\ UNCHANGED << storeVars, auxVars >>

Next == ExecuteClicked \/ ResolveStep \/ ExecuteTool \/ ReturnTrue \/ ShowResult

Spec == Init /\ [][Next]_vars

(***************************************************************************)
(* _execute_workflow on definitions written by hand                        *)
(***************************************************************************)
\* Steps a stored definition can hold besides the ones the Build tab makes: a
\* reference whose step is not a number, a mapping that is not a dict, a tool
\* whose config has the older layout, a tool name that is a path.
MalformedSteps ==
    {Step("add", << Bind("x", Const(JNum(2))) >>),
     Step("add", << Bind("x", Ref(JStr("abc"), "sum")) >>),
     Step("add", << Bind("x", Literal(JNum(3))) >>),
     Step("echo", << >>),
     Step("../x", << >>)}

MalformedWorkflows ==
    {[name |-> "wf", steps |-> s, input_parameters |-> << >>,
      output_parameters |-> << >>] :
        s \in UNION {[1 .. n -> MalformedSteps] : n \in 1 .. MaxSteps}}

ExecuteMalformed == Execute(MalformedWorkflows)

EngineNext == ExecuteMalformed \/ ResolveStep \/ ExecuteTool \/ ReturnTrue

EngineSpec == Init /\ [][EngineNext]_vars

\* The engine as the interpreter runs it: a loop pass, a tool call that
\* returns and the return after the loop each happen when they can.
EngineFairSpec ==
    EngineSpec /\ WF_vars(ResolveStep) /\ WF_vars(ExecuteTool) /\ WF_vars(ReturnTrue)

(***************************************************************************)
(* _execute_workflow in two script threads                                 *)
(*                                                                         *)
(* Each browser session runs the script in its own thread with its own     *)
(* st.session_state; the threads interleave at any point, one of them      *)
(* finishing before the other starts included.  Everything                 *)
(* _execute_workflow works on is a local of the call.                      *)
(***************************************************************************)
\* The definitions the threads run: constants only, a reference to the step
\* before, a reference at step 0, a top-level parameter.
RunsWorkflows ==
    {[name |-> "wf", steps |-> s, input_parameters |-> << >>,
      output_parameters |-> << >>] :
        s \in {<< Step("add", << Bind("x", Const(JNum(2))) >>) >>,
               << Step("add", << Bind("x", Const(JNum(2))) >>),
                  Step("add", << Bind("x", Const(JNum(0))), Bind("y", Const(JStr("k"))) >>) >>,
               << Step("add", << Bind("x", Const(JNum(2))) >>),
                  Step("add", << Bind("x", Ref(JNum(0), "sum")) >>) >>,
               << Step("add", << Bind("x", Ref(JNum(0), "sum")) >>) >>,
               << Step("add", << Bind("x", Param("q")) >>) >>}}

\* The second argument of the call: none, or a map that supplies q and also
\* holds a value under the name of a step input.
RunsTopParams == {None, JObj([q |-> JStr("paris"), x |-> JStr("rome")])}

\* step_outputs = [] at line 67 and the rest of the locals at entry.
EnterRun(wf, top) ==
    [RunIdle EXCEPT !.wf_data = wf,
                    !.top_params = top,
                    !.pc = IF wf.steps = << >> THEN "returned" ELSE "for",
                    !.result = IF wf.steps = << >> THEN Returned(FALSE, << >>, Raw("{}"))
                               ELSE None]

\* An output appended to a list every thread shares.
AppendStepOutputShared(rs, r, output) ==
    [q \in DOMAIN rs |-> [rs[q] EXCEPT !.step_outputs = Append(@, output)]]

\* step_outputs.append(parsed) at line 125: the list is the local of thread r.
AppendStepOutput(rs, r, output) ==
    [rs EXCEPT ![r].step_outputs = Append(@, output)]

\* Thread r enters _execute_workflow.
RunStart(r) ==
    /\ runs[r].pc = "idle"
    /\ \E wf \in RunsWorkflows, top \in RunsTopParams :
        runs' = [runs EXCEPT ![r] = EnterRun(wf, top)]
    /\ UNCHANGED << historyVars, runVars, storeVars, recorded, recorders, buildVars >>

\* Thread r makes one pass of the loop up to the call of execute_tool.
RunResolve(r) ==
    LET run == runs[r] IN
    /\ run.pc = "for"
    /\ run.idx < Len(run.wf_data.steps)
    /\ LET p == PrepareStep(run.wf_data.steps[run.idx + 1], run.idx, run.step_outputs,
                            run.top_params) IN
       runs' = [runs EXCEPT ![r] =
                   IF p.ok THEN [run EXCEPT !.params = p.params, !.pc = "execute_tool"]
                   ELSE [run EXCEPT !.params = p.params, !.pc = "returned",
                                    !.result = Returned(FALSE, run.step_outputs, p.payload)]]
    /\ UNCHANGED << historyVars, runVars, storeVars, recorded, recorders, buildVars >>

\* Thread r calls execute_tool, which records the call in the thread's
\* session, and appends the parsed output.
RunInvoke(r) ==
    LET run == runs[r]
        tool_name == run.wf_data.steps[run.idx + 1].tool IN
    /\ run.pc = "execute_tool"
    /\ \E outcome \in ExecuteToolOutcomes(tool_name) :
        LET entry == ToolEntry(tool_name, run.params, outcome)
            called ==
                [run EXCEPT
                    !.calls = Append(@, [step |-> run.idx, tool_name |-> tool_name,
                                         parameters |-> run.params,
                                         output_str |-> outcome.result,
                                         success |-> outcome.success]),
                    !.tool_history = Append(@, entry),
                    !.session_file = PersistEntry(@, "tool_history", entry, "ok"),
                    !.final_json_str = Raw(outcome.result),
                    !.idx = run.idx + 1,
                    !.pc = "for"] IN
        runs' = AppendStepOutput([runs EXCEPT ![r] = called], r,
                                 ParseStepOutput(outcome.result))
    /\ UNCHANGED << historyVars, runVars, storeVars, recorded, recorders, buildVars >>

\* Thread r leaves the loop: return True, step_outputs, final_json_str
RunReturn(r) ==
    LET run == runs[r] IN
    /\ run.pc = "for"
    /\ run.idx = Len(run.wf_data.steps)
    /\ runs' = [runs EXCEPT ![r] =
                   [run EXCEPT !.pc = "returned",
                               !.result = Returned(TRUE, run.step_outputs,
                                                   run.final_json_str)]]
    /\ UNCHANGED << historyVars, runVars, storeVars, recorded, recorders, buildVars >>

RunsNext ==
    \E r \in RunIds : RunStart(r) \/ RunResolve(r) \/ RunInvoke(r) \/ RunReturn(r)

RunsSpec == Init /\ [][RunsNext]_vars

(***************************************************************************)
(* The history recorders on a loaded session                               *)
(*                                                                         *)
(* SessionManager._load_session makes a stored session the current one     *)
(* without reading its history lists into memory: the session file holds   *)
(* the entries of earlier runs of the app, the in-memory lists start empty. *)
(***************************************************************************)
\* What the Run form collects for an input of type "file" (lines 320-327).
Upload ==
    JObj([name |-> JStr("a.txt"), content |-> JBytes,
          type |-> JStr("text/plain"), size |-> JNum(3)])

\* The values bound to an argument of a recorded call.
RecordedValues == {JNum(2), Upload}

\* How many entries of each kind the loaded session file holds.
PriorRecords == {0, HistoryCap}

\* The entries of earlier runs of the app, told apart by their argument.
PriorToolEntries(n) ==
    [k \in 1 .. n |->
        ToolEntry("add", [x |-> JNum(k)], [result |-> "42", success |-> TRUE])]

PriorWorkflowEntries(n) ==
    [k \in 1 .. n |->
        WorkflowEntry([name |-> "wf", steps |-> << >>], [q |-> JNum(k)],
                      Returned(FALSE, << >>, Raw("{}")))]

\* The chat messages the session file holds (_save_chat_session).
PriorChat == << [role |-> "user", content |-> "hi"] >>

HistoryInit ==
    /\ current_session_id = "s1"
    /\ \E n \in PriorRecords :
        /\ session_file = IF n = 0 THEN None
                          ELSE [session_id |-> "s1",
                                chat_history |-> PriorChat,
                                tool_history |-> PriorToolEntries(n),
                                workflow_history |-> PriorWorkflowEntries(n)]
        /\ recorded = [tool_history |-> PriorToolEntries(n),
                       workflow_history |-> PriorWorkflowEntries(n),
                       disk_failed |-> FALSE]
    /\ tool_history = << >>
    /\ workflow_history = << >>
    /\ pc = "idle"
    /\ wf_data = None
    /\ top_params = None
    /\ idx = 0
    /\ params = EmptyDict
    /\ step_outputs = << >>
    /\ final_json_str = None
    /\ result = None
    /\ calls = << >>
    /\ fs = EmptyDict
    /\ op = None
    /\ AuxInit

\* execute_tool(tool_name, parameters): the call is recorded, then the result
\* string is returned to the caller.
RecordToolHistory ==
    /\ pc \in {"idle", "recorded"}
    /\ Len(tool_history) + Len(workflow_history) < MaxRecords
    /\ \E v \in RecordedValues, outcome \in ExecuteToolOutcomes("add"), disk \in DiskOutcomes :
        LET entry == ToolEntry("add", [x |-> v], outcome)
            exit == RecorderExit(RecorderException(entry, disk)) IN
        /\ tool_history' = Append(tool_history, entry)
        /\ session_file' = SessionFileAfter("tool_history", entry, disk)
        /\ recorded' = RecordedAfter("tool_history", entry, disk)
        /\ pc' = exit
        /\ final_json_str' = IF exit = "recorded" THEN Raw(outcome.result)
                             ELSE final_json_str
    /\ UNCHANGED << current_session_id, workflow_history, wf_data, top_params, idx,
                    params, step_outputs, result, calls >>
    /\ UNCHANGED << storeVars, auxVars >>

\* The Run tab records the run that _execute_workflow returned (lines 368, 373).
RecordWorkflowHistory ==
    /\ pc \in {"idle", "recorded"}
    /\ Len(tool_history) + Len(workflow_history) < MaxRecords
    /\ \E v \in RecordedValues, ok \in BOOLEAN, disk \in DiskOutcomes :
        LET res == Returned(ok, << >>, Raw("{}"))
            entry == WorkflowEntry([name |-> "wf", steps |-> << >>], [q |-> v], res) IN
        /\ workflow_history' = Append(workflow_history, entry)
        /\ session_file' = SessionFileAfter("workflow_history", entry, disk)
        /\ recorded' = RecordedAfter("workflow_history", entry, disk)
        /\ pc' = RecorderExit(RecorderException(entry, disk))
        /\ result' = res
    /\ UNCHANGED << current_session_id, tool_history, wf_data, top_params, idx, params,
                    step_outputs, final_json_str, calls >>
    /\ UNCHANGED << storeVars, auxVars >>

HistoryNext == RecordToolHistory \/ RecordWorkflowHistory

HistorySpec == HistoryInit /\ [][HistoryNext]_vars

(***************************************************************************)
(* The history recorders of two script threads on one session file         *)
(*                                                                         *)
(* Two browser sessions that loaded the same stored session have the same  *)
(* current_session_id and their own in-memory lists.  A recorder reads the *)
(* file, opens it for writing (which empties it) and dumps the dict it     *)
(* read with its entry appended; another thread can run between any two of *)
(* these.                                                                  *)
(***************************************************************************)
\* The entries a thread hands to its recorder.
RaceEntries(field) ==
    IF field = "tool_history"
    THEN {ToolEntry("add", [x |-> v], [result |-> "42", success |-> TRUE]) :
            v \in RecordedValues \cup {JNum(3)}}
    ELSE {WorkflowEntry([name |-> "wf", steps |-> << >>], [q |-> v],
                        Returned(FALSE, << >>, Raw("{}"))) :
            v \in RecordedValues \cup {JNum(3)}}

\* json.load(f) inside try: the dict of the file, {} when there is no file or
\* its text is not JSON.
LoadSessionData(file) == IF file = None \/ file = Corrupt THEN EmptyDict ELSE file

\* Every entry handed to a recorder so far is written, as if the recorders
\* took turns on the file.
DumpedDataMerged(session_data, field, entry, handed) ==
    [f \in {g \in HandedFields : handed[g] # << >>} |-> handed[f]]

\* The dict json.dump is given: the one read, with the entry appended to its
\* list and the list cut to the last 500.
DumpedData(session_data, field, entry, handed) ==
    DictSet(session_data, field,
            LastEntries(Append(DictGetDefault(session_data, field, << >>), entry)))

\* Thread r enters a recorder: the entry is appended to the in-memory list
\* and the session file is read.
RecorderRead(r) ==
    /\ recorders[r].pc = "idle"
    /\ current_session_id # ""
    /\ \E field \in HandedFields : \E entry \in RaceEntries(field) :
        /\ recorders' = [recorders EXCEPT ![r] =
              [@ EXCEPT !.pc = "read", !.field = field, !.entry = entry,
                        !.session_data = LoadSessionData(session_file),
                        !.memory = [@ EXCEPT ![field] = Append(@, entry)]]]
        /\ recorded' = [recorded EXCEPT ![field] = Append(@, entry)]
    /\ UNCHANGED << historyVars, runVars, storeVars, runs, buildVars >>

\* open(session_path, "w"): the file is emptied, or the open raises and the
\* recorder returns.
RecorderOpen(r) ==
    /\ recorders[r].pc = "read"
    /\ \E disk \in DiskOutcomes :
        IF disk = "open_fails"
        THEN /\ recorders' = [recorders EXCEPT ![r].pc = "done",
                                               ![r].outcome = "open_failed"]
             /\ recorded' = [recorded EXCEPT !.disk_failed = TRUE]
             /\ UNCHANGED session_file
        ELSE /\ recorders' = [recorders EXCEPT ![r].pc = "opened", ![r].raced = FALSE]
             /\ session_file' = Corrupt
             /\ UNCHANGED recorded
    /\ UNCHANGED << current_session_id, tool_history, workflow_history, runVars,
                    storeVars, runs, buildVars >>

\* json.dump(session_data, f) and the close of the file.  The text lands at
\* offset 0 of a file that a thread which opened it earlier may have written
\* meanwhile: what is left is this text, or this text followed by the rest of
\* a longer one, which is not JSON.
RecorderDump(r) ==
    LET rec == recorders[r]
        data == DumpedData(rec.session_data, rec.field, rec.entry, recorded) IN
    /\ rec.pc = "opened"
    /\ \E text \in IF DumpRaises(rec.entry) THEN {Corrupt}
                   ELSE IF rec.raced THEN {data, Corrupt}
                   ELSE {data} :
        /\ session_file' = text
        /\ recorders' =
              [q \in RunIds |->
                  IF q = r
                  THEN [rec EXCEPT !.pc = "done",
                                   !.outcome = IF DumpRaises(rec.entry) THEN "raised"
                                               ELSE "written"]
                  ELSE IF recorders[q].pc = "opened"
                  THEN [recorders[q] EXCEPT !.raced = TRUE]
                  ELSE recorders[q]]
    /\ UNCHANGED << current_session_id, tool_history, workflow_history, runVars,
                    storeVars, recorded, runs, buildVars >>

RaceNext == \E r \in RunIds : RecorderRead(r) \/ RecorderOpen(r) \/ RecorderDump(r)

RaceSpec == Init /\ [][RaceNext]_vars

(***************************************************************************)
(* The workflow store: output/workflows/<name>.json                        *)
(***************************************************************************)
\* The names typed in the Build tab: none, plain ones, and ones with path
\* separators.
Names == {"", "a", "b", "./a", "../x", "../workflows_backup/a"}

\* What the Build tab saves: name, description and steps.
SavedDefinitions ==
    {[name |-> n, description |-> d, steps |-> << >>] :
        n \in Names, d \in {"first", "second"}}

\* _load_workflow: the stored definition, None when read_json gives None or
\* raises.
load_workflow(files, name) ==
    LET r == read_json(files, "@workflows", RelativeParts(name, ".json")) IN
    [returned |-> IF r.raised THEN None ELSE r.value, touched |-> r.touched]

\* A definition is written whatever its name is.
save_workflow_unnamed(files, data) ==
    LET r == write_json(files, "@workflows", RelativeParts(data.name, ".json"), data) IN
    IF r.raised
    THEN [returned |-> FALSE, files |-> files, touched |-> {}]
    ELSE [returned |-> TRUE, files |-> r.files, touched |-> r.touched]

\* _save_workflow: False without a name and when write_json raises, else the
\* record written and True.
save_workflow(files, data) ==
    LET r == write_json(files, "@workflows", RelativeParts(data.name, ".json"), data) IN
    IF data.name = "" \/ r.raised
    THEN [returned |-> FALSE, files |-> files, touched |-> {}]
    ELSE [returned |-> TRUE, files |-> r.files, touched |-> r.touched]

\* _list_workflows: the stems of the *.json files directly in the directory.
list_workflows(files) ==
    {n \in Names \cup {"c"} :
        /\ n # ""
        /\ Len(Split(n)) = 1
        /\ PathResolve(ROOT_MAP["@workflows"] \o RelativeParts(n, ".json")) \in DOMAIN files}

\* The store as the app finds it: empty, or holding a record "c" whose text
\* is not JSON.
StoredFiles ==
    {EmptyDict,
     [f \in {PathResolve(ROOT_MAP["@workflows"] \o << "c.json" >>)} |-> Corrupt]}

StoreInit ==
    /\ fs \in StoredFiles
    /\ op = None
    /\ current_session_id = "s1"
    /\ session_file = None
    /\ tool_history = << >>
    /\ workflow_history = << >>
    /\ recorded = [tool_history |-> << >>, workflow_history |-> << >>,
                   disk_failed |-> FALSE]
    /\ pc = "idle"
    /\ wf_data = None
    /\ top_params = None
    /\ idx = 0
    /\ params = EmptyDict
    /\ step_outputs = << >>
    /\ final_json_str = None
    /\ result = None
    /\ calls = << >>
    /\ AuxInit

\* Save Workflow is clicked in the Build tab (lines 419-429).
SaveClicked ==
    /\ pc = "idle"
    /\ \E data \in SavedDefinitions :
        LET r == save_workflow(fs, data) IN
        IF data.name = ""
        THEN UNCHANGED << fs, op >>
        ELSE /\ fs' = r.files
             /\ op' = [call |-> "save", name |-> data.name, data |-> data,
                       returned |-> r.returned, touched |-> r.touched, before |-> fs]
    /\ UNCHANGED << historyVars, runVars, recorded, auxVars >>

\* The Run tab is rendered: a listed workflow is loaded and its
\* input_parameters are read (lines 278-283).
RunTabLoads ==
    /\ pc = "idle"
    /\ \E wf_name \in list_workflows(fs) :
        LET r == load_workflow(fs, wf_name) IN
        /\ op' = [call |-> "load", name |-> wf_name, data |-> r.returned,
                  returned |-> r.returned # None, touched |-> r.touched, before |-> fs]
        /\ pc' = IF r.returned = None THEN "raised" ELSE "idle"
    /\ UNCHANGED << fs, historyVars, wf_data, top_params, idx, params, step_outputs,
                    final_json_str, result, calls, recorded, auxVars >>

\* wf_path.unlink(): the files without the one at path.
unlink(files, path) == [f \in (DOMAIN files) \ {path} |-> files[f]]

\* Delete is clicked on a workflow the Manage tab lists (lines 433-449).
DeleteClicked ==
    /\ pc = "idle"
    /\ \E wf \in list_workflows(fs) :
        LET wf_path == PathResolve(ROOT_MAP["@workflows"] \o << wf \o ".json" >>) IN
        /\ fs' = unlink(fs, wf_path)
        /\ op' = [call |-> "delete", name |-> wf, data |-> None, returned |-> TRUE,
                  touched |-> {wf_path}, before |-> fs]
    /\ UNCHANGED << historyVars, runVars, recorded, auxVars >>

StoreNext == SaveClicked \/ RunTabLoads \/ DeleteClicked

StoreSpec == StoreInit /\ [][StoreNext]_vars

(***************************************************************************)
(* The Build tab: the step list being built and its widgets                *)
(*                                                                         *)
(* Every interaction reruns the script, which renders the editor of every  *)
(* step from the values of the widgets.  The widgets are keyed by the      *)
(* position of the step (wf_step_tool_<i>, wf_in_mode_<i>_<p>,             *)
(* wf_in_ref_<i>_<p>), so after a removal the steps behind the removed one *)
(* are rendered with the widgets of the position they moved to.  Builds of *)
(* Streamlit differ in what identifies a widget: its key alone, or its key *)
(* and parameters, a widget whose options or default changed being reset.  *)
(* No constant is typed: a "Value" text area holds the empty text.         *)
(***************************************************************************)
MaxBuilt == 2

WidgetIdentities == {"key", "key_and_parameters"}

\* all_tools = self.tools.load_all_tools()
all_tools == ToolConfigs

\* The options of the "Tool" selectbox.
ToolOptions == {""} \cup DOMAIN all_tools

\* The options of the "Source" radio; the first is the default.
Modes == {"Constant", "From previous step"}

\* cfg.get("output_parameters", []) of the tool of a step, [] without a tool.
ToolOutputs(tool_name) ==
    IF tool_name \in DOMAIN all_tools /\ "output_parameters" \in DOMAIN all_tools[tool_name]
    THEN all_tools[tool_name].output_parameters
    ELSE << >>

\* An option of "Pick previous output": f"Step {i+1}: {name} -> {out_name}",
\* which stands for (i, out_name); NoLabel is the empty option.
Label(i, name, out) == [step |-> i, name |-> name, out |-> out]

NoLabel == [none |-> TRUE]

\* prior_outputs of the step at 0-based position pos, tools being the tool
\* names of the steps by position (lines 405-413 and 208-213).
PriorOutputs(tools, pos) ==
    UNION {{Label(i, tools[i + 1], ToolOutputs(tools[i + 1])[k].name) :
               k \in DOMAIN ToolOutputs(tools[i + 1])} : i \in 0 .. pos - 1}

\* The widgets of a position that has not been rendered yet.
NewWidgets == [tool |-> "", mode |-> EmptyDict, ref |-> EmptyDict]

\* step["inputs"][pname] = mapping: a dict keeps the place of a key it holds.
SetBinding(inputs, key, mapping) ==
    IF \E j \in DOMAIN inputs : inputs[j].key = key
    THEN [j \in DOMAIN inputs |-> IF inputs[j].key = key THEN Bind(key, mapping)
                                  ELSE inputs[j]]
    ELSE Append(inputs, Bind(key, mapping))

\* The names of the inputs the editor shows for a tool.
ParamNames(tool_name) ==
    {DictGetDefault(ToolInputs(tool_name)[k], "name", "param") :
        k \in DOMAIN ToolInputs(tool_name)}

ModeOf(w, pname) == IF pname \in DOMAIN w.mode THEN w.mode[pname] ELSE "Constant"

\* The value of "Pick previous output": the one held when the widget is kept
\* and it is still an option, else the empty option.
SelOf(w, pname, prior_outputs, kept) ==
    IF kept /\ pname \in DOMAIN w.ref /\ w.ref[pname] \in prior_outputs
    THEN w.ref[pname]
    ELSE NoLabel

\* lines 219-257: the bindings written for the inputs of the tool, in order.
\* With the empty text json.loads raises and the constant is the text.
RECURSIVE RenderInputs(_, _, _, _)
RenderInputs(input_params, inputs, w, sel) ==
    IF input_params = << >> THEN inputs
    ELSE LET pname == DictGetDefault(Head(input_params), "name", "param")
             bound ==
                IF ModeOf(w, pname) = "Constant"
                THEN SetBinding(inputs, pname, Const(JStr("")))
                ELSE IF pname \in DOMAIN sel /\ sel[pname] # NoLabel
                THEN SetBinding(inputs, pname,
                                Ref(JNum(sel[pname].step), sel[pname].out))
                ELSE inputs
         IN  RenderInputs(Tail(input_params), bound, w, sel)

\* _render_step_editor for one step: the step as the editor leaves it and the
\* widgets it has rendered.
RenderStepEditor(step, w, prior_outputs, kept) ==
    IF w.tool = ""
    THEN [step |-> [step EXCEPT !.tool = ""], widgets |-> NewWidgets]
    ELSE LET names == ParamNames(w.tool)
             refs == {p \in names : ModeOf(w, p) = "From previous step"
                                    /\ prior_outputs # {}}
             sel == [p \in refs |-> SelOf(w, p, prior_outputs, kept)]
         IN  [step |-> [tool |-> w.tool,
                        inputs |-> RenderInputs(ToolInputs(w.tool), step.inputs, w, sel)],
              widgets |-> [tool |-> w.tool,
                           mode |-> [p \in names |-> ModeOf(w, p)],
                           ref |-> sel]]

ToolsOf(ws) == [i \in DOMAIN ws |-> ws[i].tool]

\* One run of the script over the steps (lines 402-414); before holds the
\* widgets of the run before it.
Rerun(steps, ws, before, identity) ==
    LET rendered ==
          [i \in DOMAIN steps |->
              RenderStepEditor(steps[i], ws[i], PriorOutputs(ToolsOf(ws), i - 1),
                               \/ identity = "key"
                               \/ /\ i \in DOMAIN before
                                  /\ PriorOutputs(ToolsOf(before), i - 1)
                                       = PriorOutputs(ToolsOf(ws), i - 1))]
    IN  [wf_steps |-> [i \in DOMAIN steps |-> rendered[i].step],
         widgets |-> [i \in DOMAIN steps |-> rendered[i].widgets]]

\* Add Step is clicked (lines 397-399).
AddStep ==
    /\ pc = "idle"
    /\ Len(wf_steps) < MaxBuilt
    /\ \E identity \in WidgetIdentities :
        LET r == Rerun(Append(wf_steps, Step("", << >>)), Append(widgets, NewWidgets),
                       widgets, identity) IN
        /\ wf_steps' = r.wf_steps
        /\ widgets' = r.widgets
    /\ UNCHANGED << historyVars, runVars, storeVars, recorded, runs, recorders >>

\* A tool is picked in the "Tool" selectbox of a step.
SelectTool ==
    /\ pc = "idle"
    /\ \E i \in DOMAIN wf_steps, identity \in WidgetIdentities :
       \E t \in ToolOptions \ {widgets[i].tool} :
        LET r == Rerun(wf_steps, [widgets EXCEPT ![i].tool = t], widgets, identity) IN
        /\ wf_steps' = r.wf_steps
        /\ widgets' = r.widgets
    /\ UNCHANGED << historyVars, runVars, storeVars, recorded, runs, recorders >>

\* The source of an input is switched in its radio.
SetMode ==
    /\ pc = "idle"
    /\ \E i \in DOMAIN wf_steps, identity \in WidgetIdentities :
       \E p \in DOMAIN widgets[i].mode :
       \E m \in Modes \ {widgets[i].mode[p]} :
        LET r == Rerun(wf_steps, [widgets EXCEPT ![i].mode[p] = m], widgets, identity) IN
        /\ wf_steps' = r.wf_steps
        /\ widgets' = r.widgets
    /\ UNCHANGED << historyVars, runVars, storeVars, recorded, runs, recorders >>

\* An option of "Pick previous output" is picked, the empty one included.
PickRef ==
    /\ pc = "idle"
    /\ \E i \in DOMAIN wf_steps, identity \in WidgetIdentities :
       \E p \in DOMAIN widgets[i].ref :
       \E l \in (PriorOutputs(ToolsOf(widgets), i - 1) \cup {NoLabel}) \ {widgets[i].ref[p]} :
        LET r == Rerun(wf_steps, [widgets EXCEPT ![i].ref[p] = l], widgets, identity) IN
        /\ wf_steps' = r.wf_steps
        /\ widgets' = r.widgets
    /\ UNCHANGED << historyVars, runVars, storeVars, recorded, runs, recorders >>

\* st.session_state.wf_steps.pop(step_idx)
pop(steps, i) == SubSeq(steps, 1, i - 1) \o SubSeq(steps, i + 1, Len(steps))

\* Remove Step is clicked on a step (lines 195-197): the step is popped and
\* the script reruns.  The "Tool" selectbox of a position whose step changed
\* has a new default: it keeps its value when the key identifies it and shows
\* the tool of the step when its parameters do too.
RemoveStep ==
    /\ pc = "idle"
    /\ \E i \in DOMAIN wf_steps, identity \in WidgetIdentities :
        LET steps == pop(wf_steps, i)
            ws == [k \in DOMAIN steps |->
                     IF k < i \/ identity = "key" THEN widgets[k]
                     ELSE [widgets[k] EXCEPT !.tool = steps[k].tool]]
            r == Rerun(steps, ws, widgets, identity) IN
        /\ wf_steps' = r.wf_steps
        /\ widgets' = r.widgets
    /\ UNCHANGED << historyVars, runVars, storeVars, recorded, runs, recorders >>

\* The names typed in the Build tab while steps are built.
BuiltNames == {"", "a"}

\* Save Workflow is clicked (lines 419-429) with the steps as built; nothing
\* is typed as description.
SaveBuilt ==
    /\ pc = "idle"
    /\ \E name \in BuiltNames :
        LET data == [name |-> name, description |-> "", steps |-> wf_steps]
            r == save_workflow(fs, data) IN
        IF name = ""
        THEN UNCHANGED << pc, fs, op >>
        ELSE /\ fs' = r.files
             /\ op' = [call |-> "save", name |-> name, data |-> data,
                       returned |-> r.returned, touched |-> r.touched, before |-> fs]
             /\ pc' = "saved"
    /\ UNCHANGED << historyVars, wf_data, top_params, idx, params, step_outputs,
                    final_json_str, result, calls, recorded, auxVars >>

BuilderNext == AddStep \/ SelectTool \/ SetMode \/ PickRef \/ RemoveStep \/ SaveBuilt

BuilderSpec == Init /\ [][BuilderNext]_vars

(***************************************************************************)
(* From the Build tab to the Run tab: steps are appended and given a tool, *)
(* the definition is saved, and the Run tab loads and executes it.         *)
(***************************************************************************)
\* Execute Workflow is clicked on the saved definition (lines 278-283, 338-
\* 341).  A definition saved by the Build tab declares no parameters:
\* wf_data.get("input_parameters", []) and .get("output_parameters", []) give
\* the empty lists, and the run is given no top-level map.
RunSaved ==
    /\ pc = "saved"
    /\ op.returned
    /\ LET loaded == load_workflow(fs, op.name).returned
           wf == [name |-> loaded.name, steps |-> loaded.steps,
                  input_parameters |-> << >>, output_parameters |-> << >>] IN
        /\ wf_data' = wf
        /\ top_params' = TopParams(wf)
        /\ IF wf.steps = << >>
           THEN /\ result' = Returned(FALSE, << >>, Raw("{}"))
                /\ pc' = "returned"
           ELSE /\ result' = result
                /\ pc' = "for"
    /\ idx' = 0
    /\ step_outputs' = << >>
    /\ final_json_str' = None
    /\ UNCHANGED << historyVars, params, calls, storeVars, recorded, auxVars >>

BuildAndRunNext ==
    AddStep \/ SelectTool \/ SaveBuilt \/ RunSaved \/ ResolveStep \/ ExecuteTool \/ ReturnTrue

BuildAndRunSpec == Init /\ [][BuildAndRunNext]_vars

(***************************************************************************)
(* Properties                                                              *)
(***************************************************************************)
Steps_ == IF wf_data = None THEN << >> ELSE wf_data.steps

HasReturned == result # None

\* The 0-based positions at which execute_tool has been called.
Invoked == {calls[i].step : i \in DOMAIN calls}

\* The string s is one of the values substituted in an error payload.
Mentions(payload, s) ==
    /\ "json_error" \in DOMAIN payload
    /\ \E f \in (DOMAIN payload.subst) \ {"step"} : payload.subst[f] = s

\* C1: execute_tool is called at most once per step and in increasing step
\* order, the k-th call being the call for step k-1 made when k-1 outputs are
\* held; a run that returned ok=true has called it for exactly 0, 1, ..., n-1.
C1_CallsInStepOrder ==
    /\ \A i \in DOMAIN calls :
         /\ calls[i].step = i - 1
         /\ calls[i].tool_name = Steps_[i].tool
    /\ Len(calls) <= Len(Steps_)
    /\ Len(step_outputs) = Len(calls)
    /\ (HasReturned /\ result.ok) => Len(calls) = Len(Steps_)

C1_Witness ==
    /\ pc = "returned" /\ result.ok
    /\ Len(wf_data.steps) = 3
    /\ << calls[1].step, calls[2].step, calls[3].step >> = << 0, 1, 2 >>

\* C2: a run that halts at the step in 0-based position k returns ok=false
\* with exactly k step results, the parsed outputs of steps 0..k-1 in order.
C2_PartialResultsKept ==
    (HasReturned /\ ~result.ok) =>
        /\ Len(result.step_results) = idx
        /\ \A i \in 1 .. idx :
             /\ i \in DOMAIN calls
             /\ result.step_results[i] = ParseStepOutput(calls[i].output_str)

C2_Witness ==
    /\ pc = "returned" /\ ~result.ok
    /\ Len(wf_data.steps) = 3
    /\ idx = 1
    /\ Len(result.step_results) = 1

\* The tool of the step declares a required input the step's input map does
\* not bind.
LacksRequiredInput(step) ==
    \E i \in DOMAIN ToolInputs(step.tool) :
        /\ DictGetDefault(ToolInputs(step.tool)[i], "required", FALSE)
        /\ \A j \in DOMAIN step.inputs : step.inputs[j].key # ToolInputs(step.tool)[i].name

\* C3: a step whose tool requires an input that the step does not bind is
\* never invoked, nor is any later step, and the run returns ok=false having
\* halted at that step or before it.
C3_MissingRequiredHalts ==
    \A p \in DOMAIN Steps_ :
        LacksRequiredInput(Steps_[p]) =>
            /\ \A k \in Invoked : k < p - 1
            /\ HasReturned => (~result.ok /\ idx <= p - 1)

C3_Witness ==
    /\ pc = "returned" /\ ~result.ok
    /\ Len(wf_data.steps) = 3
    /\ idx = 1
    /\ LacksRequiredInput(wf_data.steps[2])
    /\ Len(calls) = 1
    /\ Mentions(result.payload, "add")

\* C4: once a call of execute_tool has reported a failure, no further step is
\* invoked and the run returns ok=false.
C4_ToolFailureHalts ==
    \A i \in DOMAIN calls :
        ~calls[i].success =>
            /\ Len(calls) = i
            /\ HasReturned => ~result.ok

\* The binding is a reference to the step holding it or to a later one; pos is
\* the 0-based position of the step.
IsForwardRef(mapping, pos) ==
    /\ IsDict(mapping)
    /\ mapping.type = "ref"
    /\ mapping.step.t = "num"
    /\ mapping.step.n >= pos

HasForwardRef(step, pos) ==
    \E j \in DOMAIN step.inputs : IsForwardRef(step.inputs[j].mapping, pos)

\* C5 as claimed: a workflow holding a self or forward reference at any
\* position has no tool invoked at all and its run returns ok=false.
C5_RejectedBeforeAnyTool ==
    (\E p \in DOMAIN Steps_ : HasForwardRef(Steps_[p], p - 1)) =>
        /\ calls = << >>
        /\ HasReturned => ~result.ok

\* C5 amended: the step holding a self or forward reference is never invoked,
\* nor is any later step, and the run never returns ok=true; the steps
\* before it may have been invoked.
C5_RejectedAtItsStep ==
    \A p \in DOMAIN Steps_ :
        HasForwardRef(Steps_[p], p - 1) =>
            /\ \A k \in Invoked : k < p - 1
            /\ HasReturned => (~result.ok /\ idx <= p - 1)

C5_Witness ==
    /\ pc = "returned" /\ ~result.ok
    /\ idx = 1
    /\ HasForwardRef(wf_data.steps[2], 1)
    /\ Invoked = {0}
    /\ result.payload.json_error = "Invalid ref for '{key}'"

\* The binding names a top-level parameter that the caller did not supply.
IsUnsuppliedParam(mapping) ==
    /\ IsDict(mapping)
    /\ mapping.type = "param"
    /\ (top_params = None \/ mapping.name \notin DOMAIN top_params.d)

\* The run halted at the step in position idx while resolving binding j of it:
\* the tool name is set and every binding before j is a constant, a reference
\* to an earlier step or a supplied top-level parameter.
HaltedAtBinding(j) ==
    /\ HasReturned
    /\ idx < Len(Steps_)
    /\ Steps_[idx + 1].tool # ""
    /\ j \in DOMAIN Steps_[idx + 1].inputs
    /\ \A i \in 1 .. j - 1 :
         LET m == Steps_[idx + 1].inputs[i].mapping IN
         \/ MappingType(m) = "const"
         \/ /\ MappingType(m) = "ref"
            /\ m.step.t = "num" /\ m.step.n >= 0 /\ m.step.n < idx
         \/ /\ MappingType(m) = "param"
            /\ ~IsUnsuppliedParam(m)

\* The positions of the bindings of the step a returned run stopped at.
BindingsOfHaltedStep ==
    IF HasReturned /\ idx < Len(Steps_) THEN DOMAIN Steps_[idx + 1].inputs ELSE {}

HasUnsuppliedParam(step) ==
    \E j \in DOMAIN step.inputs : IsUnsuppliedParam(step.inputs[j].mapping)

\* A step binding an input to an unsupplied top-level parameter is never
\* invoked, nor is any later step, and the run returns ok=false.
UnsuppliedParamHalts ==
    \A p \in DOMAIN Steps_ :
        HasUnsuppliedParam(Steps_[p]) =>
            /\ \A k \in Invoked : k < p - 1
            /\ HasReturned => (~result.ok /\ idx <= p - 1)

\* C6 as claimed: a binding to an unsupplied top-level parameter q halts the
\* run with ok=false and an error naming q, the tool not being invoked, also
\* when no top-level map is supplied.
C6_ErrorNamesParameter ==
    /\ UnsuppliedParamHalts
    /\ \A j \in BindingsOfHaltedStep :
        (HaltedAtBinding(j) /\ IsUnsuppliedParam(Steps_[idx + 1].inputs[j].mapping)) =>
            Mentions(result.payload, Steps_[idx + 1].inputs[j].mapping.name)

\* C6 amended: such a binding halts the run with ok=false and the tool not
\* invoked; the error names q when a top-level map is supplied, and names the
\* step input being bound when none is.
C6_ErrorNamesParameterOrInput ==
    /\ UnsuppliedParamHalts
    /\ \A j \in BindingsOfHaltedStep :
        (HaltedAtBinding(j) /\ IsUnsuppliedParam(Steps_[idx + 1].inputs[j].mapping)) =>
            /\ top_params # None =>
                 Mentions(result.payload, Steps_[idx + 1].inputs[j].mapping.name)
            /\ top_params = None =>
                 /\ Mentions(result.payload, Steps_[idx + 1].inputs[j].key)
                 /\ result.payload.json_error = "No top-level params provided for '{key}'"

C6_Witness ==
    /\ HaltedAtBinding(2)
    /\ IsUnsuppliedParam(Steps_[idx + 1].inputs[2].mapping)
    /\ top_params # None
    /\ Mentions(result.payload, "q")
    /\ Invoked = {0}

\* C7: every invoked step has exactly one output, which is the parsed object
\* when the tool's string is a JSON object, {"result": v} when it is another
\* JSON value v, and {"result": <the string>} when it is not JSON.
C7_StepOutputOfString ==
    /\ Len(step_outputs) = Len(calls)
    /\ \A i \in DOMAIN calls :
         LET r == calls[i].output_str
             parsed == JsonLoads(r) IN
         step_outputs[i] =
            IF parsed.ok /\ parsed.value.t = "obj" THEN parsed.value.d
            ELSE IF parsed.ok THEN [result |-> parsed.value]
            ELSE [result |-> JStr(r)]

C7_Witness ==
    /\ Len(calls) = 3
    /\ step_outputs[1] = [sum |-> JNum(5)]
    /\ step_outputs[2] = [result |-> JNum(42)]
    /\ step_outputs[3] = [result |-> JStr("hello")]

\* C8: a run returns ok=true only when each of the n steps has been invoked
\* and has its output appended; it then returns n step results and, as final
\* output, the unparsed string of the last invocation.
C8_SuccessIsComplete ==
    (HasReturned /\ result.ok) =>
        LET n == Len(Steps_) IN
        /\ n >= 1
        /\ Invoked = 0 .. n - 1
        /\ Len(result.step_results) = n
        /\ \A i \in 1 .. n : result.step_results[i] = ParseStepOutput(calls[i].output_str)
        /\ result.payload = Raw(calls[n].output_str)

C8_Witness ==
    /\ pc = "returned" /\ result.ok
    /\ Len(wf_data.steps) = 3
    /\ result.payload = Raw("{\"sum\": 5}")
    /\ result.step_results[3] = [sum |-> JNum(5)]

\* C9: a run of a workflow with no steps returns ok=false, no step results,
\* no tool invoked, and an error payload saying that no steps are defined.
C9_EmptyReportsNoSteps ==
    (HasReturned /\ Steps_ = << >>) =>
        /\ ~result.ok
        /\ result.step_results = << >>
        /\ calls = << >>
        /\ "json_error" \in DOMAIN result.payload

\* C10: when the Run tab has finished handling a run that returned, the
\* workflow history holds exactly one entry for it, with success equal to ok
\* and with the run's step results.
C10_RunIsRecordedOnce ==
    pc \in {"recorded", "raised"} =>
        /\ Len(workflow_history) = 1
        /\ workflow_history[1].success = result.ok
        /\ workflow_history[1].step_results = result.step_results

\* C11: when the Run tab has finished handling a successful run of a workflow
\* that declares output_parameters, the declared outputs have been looked up in
\* the parsed final output without an error, whatever the final string is: the
\* handling ended with the run recorded, not with an exception.
C11_DeclaredOutputsShown ==
    (/\ pc \in {"recorded", "raised"}
     /\ result.ok
     /\ wf_data.output_parameters # << >>) =>
        /\ pc = "recorded"
        /\ ParsedFinal(result.payload).t = "obj"

HistoryFields == {"tool_history", "workflow_history"}

\* The list the session file holds under field; a file that is missing or is
\* not JSON holds none.
DurableList(field) ==
    IF session_file = None \/ session_file = Corrupt THEN << >>
    ELSE DictGetDefault(session_file, field, << >>)

MemoryList(field) == IF field = "tool_history" THEN tool_history ELSE workflow_history

\* C12: as long as the disk has refused no write, each durable history list
\* holds at most HistoryCap entries and is the most recent
\* min(count, HistoryCap) entries recorded for the session, in the order they
\* were recorded.
C12_DurableIsRecentRecorded ==
    ~recorded.disk_failed =>
        \A field \in HistoryFields :
            /\ Len(DurableList(field)) <= HistoryCap
            /\ DurableList(field) = LastEntries(recorded[field])

\* C13: a recorder returns normally whatever goes wrong inside it (the disk
\* refusing the write, an entry json.dump cannot write, a session file that
\* is not JSON): no call ends with an exception, every entry handed to it is
\* in the in-memory list, and execute_tool still returns the result string of
\* the call it recorded.
C13_RecorderNeverRaises ==
    /\ pc # "raised"
    /\ Len(tool_history) + Len(workflow_history) <= MaxRecords
    /\ \A field \in HistoryFields :
         /\ Len(MemoryList(field)) <= Len(recorded[field])
         /\ \A i \in DOMAIN MemoryList(field) :
              MemoryList(field)[i] =
                  recorded[field][Len(recorded[field]) - Len(MemoryList(field)) + i]
    /\ tool_history # << >> =>
         final_json_str = Raw(tool_history[Len(tool_history)].result)

C13_Witness ==
    /\ pc = "recorded"
    /\ recorded.disk_failed
    /\ session_file = Corrupt
    /\ Len(tool_history) = 1
    /\ ~tool_history[1].success
    /\ Len(workflow_history) = 1
    /\ DumpRaises(workflow_history[1])

\* C14: as long as the disk has refused no write, after every call of a
\* recorder the last entry of each in-memory list is the last entry of the
\* durable list of the same name.
C14_LastEntriesAgree ==
    ~recorded.disk_failed =>
        \A field \in HistoryFields :
            MemoryList(field) # << >> =>
                /\ DurableList(field) # << >>
                /\ DurableList(field)[Len(DurableList(field))]
                     = MemoryList(field)[Len(MemoryList(field))]

\* The last call of the store was a save that returned True.
Saved == "call" \in DOMAIN op /\ op.call = "save" /\ op.returned

\* C15: after a save of d that returned True, loading d.name gives d, and
\* every other name that had a record before the save still loads the same
\* definition.
C15_OneRecordPerName ==
    Saved =>
        /\ load_workflow(fs, op.name).returned = op.data
        /\ \A n \in Names \ {op.name} :
             load_workflow(op.before, n).returned # None =>
                 load_workflow(fs, n).returned = load_workflow(op.before, n).returned

\* C16: the store reads and writes only below output/workflows: every file
\* there is lies in that directory, and so does every path a save or a load
\* has touched.
C16_StaysInWorkflowsDir ==
    LET base == PathResolve(ROOT_MAP["@workflows"]) IN
    /\ \A path \in DOMAIN fs : IsRelativeTo(path, base)
    /\ "call" \in DOMAIN op => \A path \in op.touched : IsRelativeTo(path, base)

\* C17: a failure of the store is a value for the caller, and the Run tab,
\* loading a listed workflow whose record cannot be read, goes on without an
\* exception.
C17_StoreFailuresAreValues ==
    ("call" \in DOMAIN op /\ op.call = "load" /\ op.data = None) => pc # "raised"

\* C18: no exception leaves _execute_workflow: a run that has been entered
\* ends with a returned (ok, step_results, payload), whatever the definition
\* holds.
C18_OutcomeIsReturned == pc = "raised" => HasReturned

\* C19: in every call of execute_tool, each input the tool's configuration
\* declares required is in the argument map with a value that is not None.
C19_RequiredInputsPresent ==
    \A i \in DOMAIN calls :
        \A j \in DOMAIN ToolInputs(calls[i].tool_name) :
            LET p == ToolInputs(calls[i].tool_name)[j] IN
            DictGetDefault(p, "required", FALSE) =>
                /\ p.name \in DOMAIN calls[i].parameters
                /\ calls[i].parameters[p.name] # None

\* The binding is a reference to a step before the one holding it; pos is the
\* 0-based position of the step.
IsEarlierRef(mapping, pos) ==
    /\ IsDict(mapping)
    /\ mapping.type = "ref"
    /\ mapping.step.t = "num"
    /\ mapping.step.n >= 0
    /\ mapping.step.n < pos

\* C20: a reference to an earlier step never fails resolution, whether or not
\* that step's output holds the name: the tool is called with the input bound
\* to the value under the name, None when the name is absent; and a run that
\* halts with "Invalid ref" halted on a binding whose step index is not that
\* of an earlier step.
C20_AbsentOutputResolvesToNull ==
    /\ \A i \in DOMAIN calls :
         \A j \in DOMAIN Steps_[i].inputs :
            LET b == Steps_[i].inputs[j] IN
            IsEarlierRef(b.mapping, i - 1) =>
                /\ b.key \in DOMAIN calls[i].parameters
                /\ calls[i].parameters[b.key]
                     = DictGet(step_outputs[b.mapping.step.n + 1], b.mapping.output)
    /\ (/\ HasReturned
        /\ "json_error" \in DOMAIN result.payload
        /\ result.payload.json_error = "Invalid ref for '{key}'") =>
            \E j \in DOMAIN Steps_[idx + 1].inputs :
                /\ Steps_[idx + 1].inputs[j].key = result.payload.subst.key
                /\ ~IsEarlierRef(Steps_[idx + 1].inputs[j].mapping, idx)

C20_Witness ==
    /\ Len(calls) = 2
    /\ IsEarlierRef(Steps_[2].inputs[1].mapping, 1)
    /\ Steps_[2].inputs[1].key = "x"
    /\ "sum" \notin DOMAIN step_outputs[1]
    /\ calls[2].parameters = [x |-> None]

\* C23: whenever the bindings of the step in position p are resolved, p step
\* outputs are held; every reference of an invoked step is to an earlier step
\* and has read the output of that step of this run; and a run that halts with
\* "Invalid ref" halted, with the step not invoked, on a binding whose step
\* index is not that of an earlier step.
C23_RefAcceptedIffEarlier ==
    /\ pc \in {"for", "execute_tool"} => Len(step_outputs) = idx
    /\ \A i \in DOMAIN calls :
         \A j \in DOMAIN Steps_[i].inputs :
            LET b == Steps_[i].inputs[j] IN
            MappingType(b.mapping) = "ref" =>
                /\ IsEarlierRef(b.mapping, i - 1)
                /\ calls[i].parameters[b.key]
                     = DictGet(ParseStepOutput(calls[b.mapping.step.n + 1].output_str),
                               b.mapping.output)
    /\ (/\ HasReturned
        /\ "json_error" \in DOMAIN result.payload
        /\ result.payload.json_error = "Invalid ref for '{key}'") =>
            /\ ~result.ok
            /\ idx \notin Invoked
            /\ \A j \in DOMAIN Steps_[idx + 1].inputs :
                 Steps_[idx + 1].inputs[j].key = result.payload.subst.key =>
                     /\ MappingType(Steps_[idx + 1].inputs[j].mapping) = "ref"
                     /\ ~IsEarlierRef(Steps_[idx + 1].inputs[j].mapping, idx)

C23_Witness ==
    /\ Len(calls) = 3
    /\ Steps_[3].inputs = << Bind("x", Ref(JNum(1), "sum")) >>
    /\ calls[2].output_str = "{\"sum\": 5}"
    /\ calls[3].parameters = [x |-> JNum(5)]

\* C24: when _execute_workflow returns, the run has called execute_tool as many
\* times as it returns step results, each call has left one tool history
\* entry, and the step a failing run stopped at has not been invoked.
C24_InvocationsMatchResults ==
    HasReturned =>
        /\ Len(calls) = Len(result.step_results)
        /\ Len(tool_history) = Len(calls)
        /\ ~result.ok => idx \notin Invoked

C24_Witness ==
    /\ pc = "returned" /\ ~result.ok
    /\ idx = 2
    /\ Len(calls) = 2
    /\ Len(result.step_results) = 2
    /\ LacksRequiredInput(wf_data.steps[3])

\* C27: a run that has entered its loop eventually returns an outcome (ok=true
\* or ok=false), given that every loop pass proceeds and every tool call
\* returns.
C27_RunReturns == (pc = "for") ~> HasReturned

\* The last call of the store was a delete from the Manage tab.
Deleted == "call" \in DOMAIN op /\ op.call = "delete"

\* C28: a name whose save returned True is listed and loadable, and a name
\* that has just been deleted is neither listed nor loadable.
C28_ListedIffSaved ==
    /\ Saved =>
         /\ op.name \in list_workflows(fs)
         /\ load_workflow(fs, op.name).returned # None
    /\ Deleted =>
         /\ op.name \notin list_workflows(fs)
         /\ load_workflow(fs, op.name).returned = None

\* What a session file holds besides the workflow history; nothing when there
\* is no file or its text is not JSON.
OtherFields(file) ==
    IF file = None \/ file = Corrupt THEN EmptyDict
    ELSE [k \in (DOMAIN file) \ {"workflow_history"} |-> file[k]]

\* C30: a call of the workflow history recorder leaves every other field of
\* the session file (session_id, chat_history, tool_history) as it was.
C30_OnlyWorkflowHistoryChanges ==
    [][workflow_history' # workflow_history =>
          OtherFields(session_file') = OtherFields(session_file)]_vars

RunSteps(run) == IF run.wf_data = None THEN << >> ELSE run.wf_data.steps

\* C21: in each thread the outputs held are the parsed results of the calls
\* this run made, one per step from step 0 on; every reference of an invoked
\* step is to an earlier step and has read the output of that step of this
\* run, whatever the other thread holds; the returned step results are the
\* outputs of this run's calls, and a result that has been returned is never
\* changed by a step of any thread.
C21_RunsAreIsolated ==
    /\ [](\A r \in RunIds :
            LET run == runs[r] IN
            /\ Len(run.step_outputs) = Len(run.calls)
            /\ run.pc \in {"for", "execute_tool"} => run.idx = Len(run.calls)
            /\ \A i \in DOMAIN run.calls :
                 /\ run.calls[i].step = i - 1
                 /\ run.step_outputs[i] = ParseStepOutput(run.calls[i].output_str)
                 /\ \A j \in DOMAIN RunSteps(run)[i].inputs :
                      LET b == RunSteps(run)[i].inputs[j] IN
                      MappingType(b.mapping) = "ref" =>
                          /\ IsEarlierRef(b.mapping, i - 1)
                          /\ run.calls[i].parameters[b.key]
                               = DictGet(ParseStepOutput(
                                             run.calls[b.mapping.step.n + 1].output_str),
                                         b.mapping.output)
            /\ run.result # None =>
                 /\ Len(run.result.step_results) = Len(run.calls)
                 /\ \A i \in DOMAIN run.calls :
                      run.result.step_results[i] = ParseStepOutput(run.calls[i].output_str))
    /\ [][\A r \in RunIds : runs[r].result # None => runs'[r].result = runs[r].result]_vars

C21_Witness ==
    /\ runs["r1"].pc = "returned"
    /\ Len(runs["r1"].result.step_results) = 2
    /\ runs["r1"].result.step_results[1] = [sum |-> JNum(5)]
    /\ runs["r2"].pc = "execute_tool"
    /\ runs["r2"].idx = 1
    /\ runs["r2"].step_outputs = << [result |-> JNum(42)] >>
    /\ runs["r2"].params = [x |-> None]

\* Every binding of every step is a constant.
ConstOnly(steps) ==
    /\ steps # << >>
    /\ \A p \in DOMAIN steps :
         \A j \in DOMAIN steps[p].inputs :
            IsDict(steps[p].inputs[j].mapping) /\ steps[p].inputs[j].mapping.type = "const"

\* The constants a step binds, by input name.
ConstantsOf(step) ==
    [k \in {step.inputs[j].key : j \in DOMAIN step.inputs} |->
        (CHOOSE b \in {step.inputs[j] : j \in DOMAIN step.inputs} : b.key = k).mapping.value]

\* The tools gave the two runs the same result strings, call by call.
SameToolResults(a, b) ==
    \A i \in (DOMAIN a.calls) \cap (DOMAIN b.calls) :
        a.calls[i].output_str = b.calls[i].output_str

\* C22: in a run of a workflow bound with constants only, every call of a tool
\* is made with exactly the constants of its step, whatever top-level map was
\* supplied; and two such runs of the same steps whose tools gave the same
\* results return the same ok, step results and final output.
C22_ConstOnlyRunsAgree ==
    /\ \A r \in RunIds :
         ConstOnly(RunSteps(runs[r])) =>
             \A i \in DOMAIN runs[r].calls :
                 runs[r].calls[i].parameters = ConstantsOf(RunSteps(runs[r])[i])
    /\ \A a \in RunIds, b \in RunIds :
         (/\ ConstOnly(RunSteps(runs[a]))
          /\ RunSteps(runs[a]) = RunSteps(runs[b])
          /\ runs[a].result # None
          /\ runs[b].result # None
          /\ SameToolResults(runs[a], runs[b])) =>
             runs[a].result = runs[b].result

C22_Witness ==
    /\ runs["r1"].pc = "returned" /\ runs["r2"].pc = "returned"
    /\ ConstOnly(RunSteps(runs["r1"]))
    /\ RunSteps(runs["r1"]) = RunSteps(runs["r2"])
    /\ runs["r1"].top_params = None
    /\ runs["r2"].top_params # None
    /\ Len(runs["r1"].calls) = 2
    /\ runs["r1"].calls[2].parameters = [x |-> JNum(0), y |-> JStr("k")]
    /\ runs["r1"].result.ok
    /\ runs["r1"].result = runs["r2"].result

\* What the recorder of a thread read, with its entry appended.
SnapshotWithEntry(rec) ==
    DictSet(rec.session_data, rec.field,
            LastEntries(Append(DictGetDefault(rec.session_data, rec.field, << >>),
                               rec.entry)))

\* The entries of a sequence.
Range(seq) == {seq[i] : i \in DOMAIN seq}

\* C26: when no recorder is between its read and its write, a session file
\* that is JSON is exactly what one recorder read with that recorder's own
\* entry appended (the last writer wins, nothing is merged); there is no file
\* only while no recorder has opened it, and the file is not JSON only after a
\* dump that raised or a write over another thread's text.
C26_LastWriterWins ==
    (\A r \in RunIds : recorders[r].pc \in {"idle", "done"}) =>
        /\ session_file = None =>
             \A r \in RunIds : recorders[r].outcome \in {"none", "open_failed"}
        /\ (session_file # None /\ session_file # Corrupt) =>
             \E r \in RunIds :
                /\ recorders[r].outcome = "written"
                /\ session_file = SnapshotWithEntry(recorders[r])
        /\ session_file = Corrupt =>
             \E r \in RunIds :
                \/ recorders[r].outcome = "raised"
                \/ recorders[r].outcome = "written" /\ recorders[r].raced

\* Both recorders have completed their write and the entry of the first is
\* not in the durable log.
C26_Witness ==
    /\ \A r \in RunIds : recorders[r].outcome = "written" /\ ~recorders[r].raced
    /\ recorders["r1"].field = "workflow_history"
    /\ recorders["r2"].field = "workflow_history"
    /\ recorders["r1"].entry # recorders["r2"].entry
    /\ session_file # Corrupt
    /\ session_file.workflow_history = << recorders["r2"].entry >>
    /\ recorders["r1"].entry \notin Range(session_file.workflow_history)
    /\ recorders["r1"].entry \in Range(recorders["r1"].memory.workflow_history)

\* The steps hold a reference that is not to an earlier step.
HasLateRef(steps) ==
    \E p \in DOMAIN steps :
        \E j \in DOMAIN steps[p].inputs :
            /\ steps[p].inputs[j].mapping.type = "ref"
            /\ ~IsEarlierRef(steps[p].inputs[j].mapping, p - 1)

\* C25: every reference in the step list being built, and in the definition
\* that Save has persisted, is to a step before the one holding it.
C25_BuiltRefsAreEarlier ==
    /\ ~HasLateRef(wf_steps)
    /\ Saved => ~HasLateRef(load_workflow(fs, op.name).returned.steps)

\* C29: a definition without a name is not persisted (_save_workflow returns
\* False for it and leaves the files as they are, and no stored record has an
\* empty name); a step without a tool is never invoked, nor is any step after
\* it, and the run that reaches it returns ok=false with an error naming the
\* step and with the parsed outputs of the steps before it.
C29_UnnamedAndToollessRejected ==
    /\ LET unnamed == [name |-> "", description |-> "", steps |-> wf_steps] IN
         /\ ~save_workflow(fs, unnamed).returned
         /\ save_workflow(fs, unnamed).files = fs
    /\ \A path \in DOMAIN fs : fs[path].json.name # ""
    /\ \A p \in DOMAIN Steps_ :
         Steps_[p].tool = "" =>
            /\ \A k \in Invoked : k < p - 1
            /\ HasReturned =>
                 /\ ~result.ok
                 /\ idx <= p - 1
                 /\ idx = p - 1 =>
                      /\ result.payload
                           = JsonDumpsError("Step {idx+1} missing tool", [step |-> p])
                      /\ Len(result.step_results) = p - 1
                      /\ \A i \in 1 .. p - 1 :
                           result.step_results[i] = ParseStepOutput(calls[i].output_str)

C29_Witness ==
    /\ pc = "returned" /\ ~result.ok
    /\ Len(wf_steps) = 2
    /\ wf_steps[2] = Step("", << >>)
    /\ load_workflow(fs, "a").returned.steps = wf_steps
    /\ wf_data.steps = wf_steps
    /\ idx = 1
    /\ result.payload.subst.step = 2
    /\ Len(calls) = 1
    /\ result.step_results = << [sum |-> JNum(5)] >>

====
